---- MODULE Spec2Model ----
(***************************************************************************)
(* Model of poormanray's Session (src/src/poormanray/session.py): the      *)
(* execution facade run(), the one-shot path run_single() and the screen   *)
(* (terminal multiplexer) driver run_in_screen().                          *)
(*                                                                         *)
(* Text is modelled character by character: a str is a sequence of         *)
(* one-character strings, a bytes value a sequence of byte names.  ASCII   *)
(* bytes carry the name of their character; the one non-ASCII character    *)
(* of the model, "é", is the two bytes "C3" "A9".                          *)
(* Time is counted in ticks of 0.1 s.                                      *)
(***************************************************************************)
EXTENDS Integers, Sequences, FiniteSets, TLC

\* ------------------------------------------------------------------ bounds
\* calls made on one Session in the facade specification
MaxCalls == 2
\* ticks the polling loop is followed for after start_time
MaxPollTicks == 12
\* ticks the caller may wait before a call
MaxIdleWait == 1
\* pieces a buffer handed to the scan on its own is made of
MaxScanPieces == 5

\* ------------------------------------------------------- program constants
DefaultTimeout == 600
RecvSize == 4096
HashLen == 12
MarkerHashLen == 20
TicksPerSecond == 10
SettleTicks == 1
GraceTicks == 10
PollTicks == 1

\* --------------------------------------------------------------- optionals
None == [some |-> FALSE, v |-> 0]
Some(x) == [some |-> TRUE, v |-> x]
\* Python truthiness of an int | None
Truthy(t) == t.some /\ t.v # 0

\* ------------------------------------------------------------------- text
Take(s, n) == SubSeq(s, 1, IF n < Len(s) THEN n ELSE Len(s))
Drop(s, n) == SubSeq(s, n + 1, Len(s))

\* s[i:i+len(t)] == t
MatchAt(s, i, t) ==
    /\ i >= 1
    /\ i + Len(t) - 1 <= Len(s)
    /\ \A j \in 1..Len(t) : s[i + j - 1] = t[j]

\* t in s
Contains(s, t) == \E i \in 1..(Len(s) + 1) : MatchAt(s, i, t)

\* str.encode("utf-8")
RECURSIVE Encode(_)
Encode(s) ==
    IF s = <<>> THEN <<>>
    ELSE (IF Head(s) = "é" THEN <<"C3", "A9">> ELSE <<Head(s)>>) \o Encode(Tail(s))

\* bytes.decode("utf-8") raises UnicodeDecodeError unless the bytes are well formed
RECURSIVE WellFormed(_)
WellFormed(b) ==
    IF b = <<>> THEN TRUE
    ELSE IF Head(b) = "C3" THEN Len(b) >= 2 /\ b[2] = "A9" /\ WellFormed(Drop(b, 2))
    ELSE IF Head(b) = "A9" THEN FALSE
    ELSE WellFormed(Tail(b))

RECURSIVE Decode(_)
Decode(b) ==
    IF b = <<>> THEN <<>>
    ELSE IF Head(b) = "C3" THEN <<"é">> \o Decode(Drop(b, 2))
    ELSE <<Head(b)>> \o Decode(Tail(b))

Digit(d) == <<"0", "1", "2", "3", "4", "5", "6", "7", "8", "9">>[d + 1]

RECURSIVE Decimal(_)
Decimal(n) == IF n < 10 THEN <<Digit(n)>> ELSE Decimal(n \div 10) \o <<Digit(n % 10)>>

\* str(time.time()) of a clock reading of t ticks
FormatTime(t) == Decimal(t \div TicksPerSecond) \o <<".">> \o <<Digit(t % TicksPerSecond)>>

\* --------------------------------------------------------------- literals
WhichScreen == <<"w", "h", "i", "c", "h", " ", "s", "c", "r", "e", "e", "n">>
ScreenWord == <<"s", "c", "r", "e", "e", "n">>
ScreenStartPrefix == <<"s", "c", "r", "e", "e", "n", " ", "-", "S", " ">>
NamePrefix == <<"o", "l", "m", "o", "-", "c", "o", "o", "k", "b", "o", "o", "k", "-">>
MarkerPrefix == <<"C", "M", "D", "_", "C", "O", "M", "P", "L", "E", "T", "E", "D", "_">>
EchoOpen == <<";", " ", "e", "c", "h", "o", " ", "'">>
EchoClose == <<"'">>
QuitSuffix == <<";", " ", "s", "c", "r", "e", "e", "n", " ", "-", "X", " ", "q", "u", "i", "t">>
Newline == <<"\n">>
DetachKeys == <<"^A", "d">>

\* ---------------------------------------------------------------- inputs
CmdLs == <<"l", "s">>
CmdAccent == <<"é">>
Commands == {CmdLs, CmdAccent}
Timeouts == {None, Some(0), Some(1)}
Statuses == {"pending", "running", "stopped", "terminated"}

\* hashlib.md5(b).hexdigest()
Md5Hex(b) ==
    IF b = <<"l", "s">> THEN
        <<"4", "4", "b", "a", "5", "c", "a", "6", "5", "6", "5", "1", "b", "4", "f", "3",
          "6", "f", "1", "9", "2", "7", "5", "7", "6", "d", "d", "3", "5", "4", "3", "6">>
    ELSE IF b = <<"C3", "A9">> THEN
        <<"6", "6", "d", "d", "c", "d", "9", "7", "c", "f", "d", "e", "a", "b", "b", "2",
          "f", "6", "f", "b", "8", "a", "9", "9", "9", "b", "4", "b", "c", "7", "6", "f">>
    ELSE
        <<"2", "3", "0", "f", "f", "a", "6", "6", "4", "f", "f", "5", "e", "9", "7", "4",
          "9", "1", "a", "2", "8", "e", "b", "3", "a", "f", "7", "2", "c", "d", "d", "6">>

CommandHash(command) == Take(Md5Hex(Encode(command)), HashLen)
\* a session name without the time
ScreenNameMutant(command_hash, t) == NamePrefix \o command_hash

\* f"olmo-cookbook-{command_hash}-{time.time()}"
ScreenName(command_hash, t) == NamePrefix \o command_hash \o <<"-">> \o FormatTime(t)
CompletionMarker(command_hash) == MarkerPrefix \o Take(command_hash, MarkerHashLen)
StartLine(screen_name) == ScreenStartPrefix \o screen_name \o Newline
\* the quit instruction goes to the wrong branch
InjectionMutant(command, completion_marker, terminate) ==
    IF terminate
    THEN command \o EchoOpen \o completion_marker \o EchoClose
    ELSE command \o EchoOpen \o completion_marker \o EchoClose \o QuitSuffix

\* f"{command}; echo '{completion_marker}'; screen -X quit" or f"{command}; echo '{completion_marker}'"
Injection(command, completion_marker, terminate) ==
    IF terminate
    THEN command \o EchoOpen \o completion_marker \o EchoClose \o QuitSuffix
    ELSE command \o EchoOpen \o completion_marker \o EchoClose

\* a line break that accepts LF only
LineBreakAtMutant(s, i) == {n \in {1} : MatchAt(s, i, <<"\n">>)}

\* re.search(r"\r?\n" + completion_marker + r"\r?\n", buffer)
LineBreakAt(s, i) == {n \in {1, 2} : \/ n = 1 /\ MatchAt(s, i, <<"\n">>)
                                     \/ n = 2 /\ MatchAt(s, i, <<"\r", "\n">>)}
Scan(buffer, completion_marker) ==
    \E i \in 1..Len(buffer) : \E a \in LineBreakAt(buffer, i) :
        /\ MatchAt(buffer, i + a, completion_marker)
        /\ LineBreakAt(buffer, i + a + Len(completion_marker)) # {}

\* what the remote side may answer to an exec_command: stdout and stderr bytes
Replies ==
    { [out |-> <<"/", "b", "i", "n", "/", "s", "c", "r", "e", "e", "n", "\n">>, err |-> <<>>],
      [out |-> <<>>, err |-> <<"n", "o">>],
      [out |-> <<"o", "k", "C3">>, err |-> <<>>] }

\* what the remote side may print on the interactive channel while the loop polls
Streams(marker) ==
    { <<>>,
      <<"x", "\r", "\n">> \o marker \o <<"\r", "\n">>,
      <<"\n">> \o marker \o <<"\n", "x">>,
      <<"C3", "A9", "\n">> \o marker \o <<"\n">> }

\* ------------------------------------------------------------------ state
VARIABLES
    dirStatus,      \* status the instance directory would report now
    describeCalls,  \* calls made to InstanceInfo.describe_instance
    instance,       \* self.instance
    now,            \* time.time(), in ticks
    callsLeft,      \* calls the caller still makes on this Session
    pc,             \* position of the running call
    req,            \* the caller's call: entry point and arguments
    statusAtCall,   \* dirStatus when the call was made
    rs,             \* frame of run_single
    ris,            \* frame of run_in_screen
    conns,          \* SSH clients connected by the running call
    trace,          \* transport operations of the running call, in order
    stream,         \* bytes the remote side has still to print on the channel
    delivered,      \* bytes recv has returned so far
    didRecv,        \* channel.recv was called
    reachedPoll,    \* the polling loop was entered
    mirrored,       \* text written to sys.stdout
    warnings,       \* logger.warning calls
    result,         \* outcome of the call
    sessions,       \* screen sessions this Session has injected a command into
    scanIn,         \* a buffer handed to the completion scan on its own
    scanOut         \* what the scan answered for scanIn

vars == <<dirStatus, describeCalls, instance, now, callsLeft, pc, req, statusAtCall,
          rs, ris, conns, trace, stream, delivered, didRecv, reachedPoll, mirrored,
          warnings, result, sessions, scanIn, scanOut>>

envVars == <<dirStatus, describeCalls, instance>>
unitVars == <<scanIn, scanOut>>
fixedVars == <<envVars, unitVars, sessions>>
loopVars == <<stream, delivered, didRecv, reachedPoll, mirrored, warnings>>

NoReq == [entry |-> "none", command |-> <<>>, get_pty |-> FALSE, detach |-> FALSE,
          terminate |-> FALSE, timeout |-> None]
NoRs == [active |-> FALSE, command |-> <<>>, timeout |-> None, get_pty |-> FALSE,
         client |-> 0, reply |-> [out |-> <<>>, err |-> <<>>], ret |-> "none",
         returned |-> FALSE]
NoRis == [active |-> FALSE, command |-> <<>>, detach |-> FALSE, timeout |-> None,
          terminate |-> FALSE, client |-> 0, channel |-> FALSE, command_hash |-> <<>>,
          screen_name |-> <<>>, completion_marker |-> <<>>, buffer |-> <<>>,
          start_time |-> 0, exit |-> "none", e |-> "none"]
NoResult == [kind |-> "none", stdout |-> <<>>, stderr |-> <<>>, error |-> "none"]

Returned(out, err) == [kind |-> "return", stdout |-> out, stderr |-> err, error |-> "none"]
Raised(e) == [kind |-> "raise", stdout |-> <<>>, stderr |-> <<>>, error |-> e]

Ev(op, conn, data, t, flag) ==
    [op |-> op, conn |-> conn, data |-> data, timeout |-> t, flag |-> flag]

\* InstanceInfo.describe_instance: the directory's answer at the time of the call
DescribeInstance(status) == [state |-> status]

\* Session.__init__ has run: the instance was described once
InitSession ==
    /\ dirStatus \in Statuses
    /\ describeCalls = 1
    /\ instance = DescribeInstance(dirStatus)
    /\ now = 0
    /\ pc = "idle"
    /\ req = NoReq
    /\ statusAtCall = dirStatus
    /\ rs = NoRs
    /\ ris = NoRis
    /\ conns = <<>>
    /\ trace = <<>>
    /\ stream = <<>>
    /\ delivered = <<>>
    /\ didRecv = FALSE
    /\ reachedPoll = FALSE
    /\ mirrored = <<>>
    /\ warnings = 0
    /\ result = NoResult
    /\ sessions = <<>>

\* no buffer is scanned on its own
NoScan == scanIn = <<>> /\ scanOut = "none"

Init == InitSession /\ NoScan /\ callsLeft = MaxCalls

\* one call on the Session of a running instance, through any of its entry points
InitDriver == InitSession /\ NoScan /\ dirStatus = "running" /\ callsLeft = 1

\* ------------------------------------------------------------ environment
\* the instance changes status between two calls
StatusChange ==
    /\ pc = "idle"
    /\ \E s \in Statuses \ {dirStatus} : dirStatus' = s
    /\ UNCHANGED <<describeCalls, instance, now, callsLeft, pc, req, statusAtCall, rs, ris,
                   conns, trace, loopVars, result, unitVars, sessions>>

\* -------------------------------------------------------------- the calls
Call(entry, command, get_pty, detach, terminate, timeout, wait, first) ==
    /\ pc = "idle"
    /\ callsLeft > 0
    /\ callsLeft' = callsLeft - 1
    /\ now' = now + wait
    /\ req' = [entry |-> entry, command |-> command, get_pty |-> get_pty,
               detach |-> detach, terminate |-> terminate, timeout |-> timeout]
    /\ statusAtCall' = dirStatus
    /\ pc' = first
    /\ UNCHANGED <<fixedVars, conns, trace, loopVars, result>>

CallRun ==
    \E command \in Commands, get_pty \in BOOLEAN, detach \in BOOLEAN, terminate \in BOOLEAN,
       timeout \in Timeouts, wait \in 0..MaxIdleWait :
        /\ Call("run", command, get_pty, detach, terminate, timeout, wait, "run")
        /\ UNCHANGED <<rs, ris>>

CallRunSingle ==
    \E command \in Commands, get_pty \in BOOLEAN, timeout \in Timeouts :
        /\ Call("run_single", command, get_pty, FALSE, FALSE, timeout, 0, "rs_connect")
        /\ rs' = [NoRs EXCEPT !.active = TRUE, !.command = command, !.timeout = timeout,
                              !.get_pty = get_pty, !.ret = "caller"]
        /\ UNCHANGED ris

CallRunInScreen ==
    \E command \in Commands, detach \in BOOLEAN, terminate \in BOOLEAN,
       timeout \in Timeouts :
        /\ Call("run_in_screen", command, FALSE, detach, terminate, timeout, 0, "ris_probe")
        /\ ris' = [NoRis EXCEPT !.active = TRUE, !.command = command, !.detach = detach,
                                !.timeout = timeout, !.terminate = terminate]
        /\ UNCHANGED rs

\* the call is over: the caller has its result, the frames are gone
Reset ==
    /\ pc = "returned"
    /\ pc' = "idle"
    /\ req' = NoReq
    /\ rs' = NoRs
    /\ ris' = NoRis
    /\ conns' = <<>>
    /\ trace' = <<>>
    /\ stream' = <<>>
    /\ delivered' = <<>>
    /\ didRecv' = FALSE
    /\ reachedPoll' = FALSE
    /\ mirrored' = <<>>
    /\ warnings' = 0
    /\ result' = NoResult
    /\ UNCHANGED <<fixedVars, now, callsLeft, statusAtCall>>

\* ------------------------------------------------------------------ run()
\* the default is taken only for None
TimeoutOrDefaultMutant(timeout) == IF timeout.some THEN timeout ELSE Some(DefaultTimeout)

\* timeout or 600
TimeoutOrDefault(timeout) == IF Truthy(timeout) THEN timeout ELSE Some(DefaultTimeout)

\* run() that asks the multiplexer path to wait for the command
RunPollsMutant ==
    /\ pc = "run"
    /\ IF instance.state # "running"
       THEN /\ result' = Raised("ValueError: not running")
            /\ pc' = "returned"
            /\ UNCHANGED <<rs, ris>>
       ELSE IF req.detach
       THEN /\ ris' = [NoRis EXCEPT !.active = TRUE, !.command = req.command,
                                    !.detach = FALSE, !.terminate = req.terminate,
                                    !.timeout = TimeoutOrDefault(req.timeout)]
            /\ pc' = "ris_probe"
            /\ UNCHANGED <<rs, result>>
       ELSE /\ rs' = [NoRs EXCEPT !.active = TRUE, !.command = req.command,
                                  !.get_pty = req.get_pty, !.timeout = req.timeout,
                                  !.ret = "caller"]
            /\ pc' = "rs_connect"
            /\ UNCHANGED <<ris, result>>
    /\ UNCHANGED <<fixedVars, now, callsLeft, req, statusAtCall, conns, trace, loopVars>>

\* run() that turns away stopped instances only
RunMutant ==
    /\ pc = "run"
    /\ IF instance.state = "stopped"
       THEN /\ result' = Raised("ValueError: not running")
            /\ pc' = "returned"
            /\ UNCHANGED <<rs, ris>>
       ELSE IF req.detach
       THEN /\ ris' = [NoRis EXCEPT !.active = TRUE, !.command = req.command,
                                    !.detach = req.detach, !.terminate = req.terminate,
                                    !.timeout = TimeoutOrDefault(req.timeout)]
            /\ pc' = "ris_probe"
            /\ UNCHANGED <<rs, result>>
       ELSE /\ rs' = [NoRs EXCEPT !.active = TRUE, !.command = req.command,
                                  !.get_pty = req.get_pty, !.timeout = req.timeout,
                                  !.ret = "caller"]
            /\ pc' = "rs_connect"
            /\ UNCHANGED <<ris, result>>
    /\ UNCHANGED <<fixedVars, now, callsLeft, req, statusAtCall, conns, trace, loopVars>>

\* if self.instance.state != RUNNING: raise ValueError; if detach: run_in_screen(...) else: run_single(...)
Run ==
    /\ pc = "run"
    /\ IF instance.state # "running"
       THEN /\ result' = Raised("ValueError: not running")
            /\ pc' = "returned"
            /\ UNCHANGED <<rs, ris>>
       ELSE IF req.detach
       THEN /\ ris' = [NoRis EXCEPT !.active = TRUE, !.command = req.command,
                                    !.detach = req.detach, !.terminate = req.terminate,
                                    !.timeout = TimeoutOrDefault(req.timeout)]
            /\ pc' = "ris_probe"
            /\ UNCHANGED <<rs, result>>
       ELSE /\ rs' = [NoRs EXCEPT !.active = TRUE, !.command = req.command,
                                  !.get_pty = req.get_pty, !.timeout = req.timeout,
                                  !.ret = "caller"]
            /\ pc' = "rs_connect"
            /\ UNCHANGED <<ris, result>>
    /\ UNCHANGED <<fixedVars, now, callsLeft, req, statusAtCall, conns, trace, loopVars>>

\* ------------------------------------------------------------ connections
NewConn(by) == [by |-> by, open |-> TRUE, closes |-> 0]
Opened(by) == Append(conns, NewConn(by))
\* client.close()
Closed(c) == [conns EXCEPT ![c].open = FALSE, ![c].closes = @ + 1]

\* the call ends by raising e to the caller
RaiseToCaller(e) ==
    /\ result' = Raised(e)
    /\ pc' = "returned"

\* ----------------------------------------------------------- run_single()
\* client = self.connect()
RunSingle_Connect ==
    /\ pc = "rs_connect"
    /\ \/ /\ conns' = Opened("run_single")
          /\ trace' = Append(trace, Ev("connect", Len(conns) + 1, <<>>, None, FALSE))
          /\ rs' = [rs EXCEPT !.client = Len(conns) + 1]
          /\ pc' = "rs_exec"
          /\ UNCHANGED result
       \/ /\ trace' = Append(trace, Ev("connect_failed", 0, <<>>, None, FALSE))
          /\ RaiseToCaller("connect failed")
          /\ UNCHANGED <<conns, rs>>
    /\ UNCHANGED <<fixedVars, now, callsLeft, req, statusAtCall, ris, loopVars>>

\* response = client.exec_command(command, timeout=timeout, get_pty=get_pty)
RunSingle_Exec ==
    /\ pc = "rs_exec"
    /\ \/ \E reply \in Replies :
            /\ trace' = Append(trace, Ev("exec", rs.client, rs.command, rs.timeout, rs.get_pty))
            /\ rs' = [rs EXCEPT !.reply = reply]
            /\ pc' = "rs_read"
            /\ UNCHANGED result
       \/ /\ RaiseToCaller("exec_command failed")
          /\ UNCHANGED <<trace, rs>>
    /\ UNCHANGED <<fixedVars, now, callsLeft, req, statusAtCall, ris, conns, loopVars>>

\* return SessionContent.from_command(*response)
RunSingle_Read ==
    /\ pc = "rs_read"
    /\ \/ /\ WellFormed(rs.reply.out) /\ WellFormed(rs.reply.err)
          /\ rs' = [rs EXCEPT !.returned = TRUE]
          /\ IF rs.ret = "probe"
             THEN pc' = "ris_check" /\ UNCHANGED result
             ELSE /\ result' = Returned(Decode(rs.reply.out), Decode(rs.reply.err))
                  /\ pc' = "returned"
       \/ /\ ~(WellFormed(rs.reply.out) /\ WellFormed(rs.reply.err))
          /\ RaiseToCaller("UnicodeDecodeError")
          /\ UNCHANGED rs
       \/ /\ RaiseToCaller("read failed")
          /\ UNCHANGED rs
    /\ UNCHANGED <<fixedVars, now, callsLeft, req, statusAtCall, ris, conns, trace, loopVars>>

\* -------------------------------------------------------- run_in_screen()
\* the error is swallowed: the flow goes on to the normal close and return
ThrowMutant(e) ==
    /\ ris' = [ris EXCEPT !.e = e]
    /\ pc' = "ris_close"

\* an error inside the try block: control goes to the handler.  The errors the steps
\* raise (paramiko.SSHException, OSError, EOFError, UnicodeDecodeError) are all
\* subclasses of Exception, the class the handler catches.
Throw(e) ==
    /\ ris' = [ris EXCEPT !.e = e]
    /\ pc' = "ris_except"

\* self.run_single("which screen")
Screen_Probe ==
    /\ pc = "ris_probe"
    /\ rs' = [NoRs EXCEPT !.active = TRUE, !.command = WhichScreen, !.ret = "probe"]
    /\ pc' = "rs_connect"
    /\ UNCHANGED <<fixedVars, now, callsLeft, req, statusAtCall, ris, conns, trace, loopVars,
                   result>>

\* the probe's answer is not looked at
Screen_CheckProbeMutant ==
    /\ pc = "ris_check"
    /\ ris' = [ris EXCEPT !.client = 0, !.command_hash = CommandHash(ris.command)]
    /\ pc' = "ris_connect"
    /\ UNCHANGED <<fixedVars, now, callsLeft, req, statusAtCall, rs, conns, trace, loopVars,
                   result>>

\* if "screen" not in <probe>.stdout: raise RuntimeError; client = None; command_hash = ...
Screen_CheckProbe ==
    /\ pc = "ris_check"
    /\ IF ~Contains(Decode(rs.reply.out), ScreenWord)
       THEN /\ RaiseToCaller("RuntimeError: screen is not installed")
            /\ UNCHANGED ris
       ELSE /\ ris' = [ris EXCEPT !.client = 0, !.command_hash = CommandHash(ris.command)]
            /\ pc' = "ris_connect"
            /\ UNCHANGED result
    /\ UNCHANGED <<fixedVars, now, callsLeft, req, statusAtCall, rs, conns, trace, loopVars>>

\* client = self.connect()
Screen_Connect ==
    /\ pc = "ris_connect"
    /\ \/ /\ conns' = Opened("run_in_screen")
          /\ trace' = Append(trace, Ev("connect", Len(conns) + 1, <<>>, None, FALSE))
          /\ ris' = [ris EXCEPT !.client = Len(conns) + 1]
          /\ pc' = "ris_shell"
       \/ /\ trace' = Append(trace, Ev("connect_failed", 0, <<>>, None, FALSE))
          /\ Throw("connect failed")
          /\ UNCHANGED conns
    /\ UNCHANGED <<fixedVars, now, callsLeft, req, statusAtCall, rs, loopVars, result>>

\* channel = self.shell(client)
Screen_Shell ==
    /\ pc = "ris_shell"
    /\ \/ \E s \in Streams(CompletionMarker(ris.command_hash)) :
            /\ trace' = trace \o <<Ev("invoke_shell", ris.client, <<>>, None, FALSE),
                                   Ev("resize_pty", ris.client, <<>>, None, FALSE)>>
            /\ ris' = [ris EXCEPT !.channel = TRUE]
            /\ stream' = s
            /\ pc' = "ris_start"
       \/ /\ Throw("invoke_shell failed")
          /\ UNCHANGED <<trace, stream>>
       \/ /\ trace' = Append(trace, Ev("invoke_shell", ris.client, <<>>, None, FALSE))
          /\ Throw("resize_pty failed")
          /\ UNCHANGED stream
    /\ UNCHANGED <<fixedVars, now, callsLeft, req, statusAtCall, rs, conns, delivered, didRecv,
                   reachedPoll, mirrored, warnings, result>>

\* screen_name = ...; channel.send(f"screen -S {screen_name}\n".encode("utf-8"))
Screen_Start ==
    /\ pc = "ris_start"
    /\ LET screen_name == ScreenName(ris.command_hash, now) IN
        \/ /\ trace' = Append(trace, Ev("send", ris.client, Encode(StartLine(screen_name)),
                                        None, FALSE))
           /\ ris' = [ris EXCEPT !.screen_name = screen_name]
           /\ pc' = "ris_settle"
        \/ /\ ris' = [ris EXCEPT !.screen_name = screen_name, !.e = "send failed"]
           /\ pc' = "ris_except"
           /\ UNCHANGED trace
    /\ UNCHANGED <<fixedVars, now, callsLeft, req, statusAtCall, rs, conns, loopVars, result>>

\* time.sleep(0.1)
Screen_Settle ==
    /\ pc = "ris_settle"
    /\ now' = now + SettleTicks
    /\ trace' = Append(trace, Ev("sleep", 0, <<>>, Some(SettleTicks), FALSE))
    /\ pc' = "ris_inject"
    /\ UNCHANGED <<fixedVars, callsLeft, req, statusAtCall, rs, ris, conns, loopVars, result>>

\* completion_marker = ...; channel.send(<command; echo marker [; screen -X quit]>)
Screen_Inject ==
    /\ pc = "ris_inject"
    /\ LET completion_marker == CompletionMarker(ris.command_hash) IN
        \/ /\ trace' = Append(trace,
                  Ev("send", ris.client,
                     Encode(Injection(ris.command, completion_marker, ris.terminate)),
                     None, FALSE))
           /\ ris' = [ris EXCEPT !.completion_marker = completion_marker]
           /\ sessions' = Append(sessions, [command |-> ris.command,
                                            screen_name |-> ris.screen_name,
                                            completion_marker |-> completion_marker])
           /\ pc' = "ris_enter"
        \/ /\ ris' = [ris EXCEPT !.completion_marker = completion_marker, !.e = "send failed"]
           /\ pc' = "ris_except"
           /\ UNCHANGED <<trace, sessions>>
    /\ UNCHANGED <<envVars, unitVars, now, callsLeft, req, statusAtCall, rs, conns, loopVars,
                   result>>

\* the command is never entered
Screen_EnterMutant ==
    /\ pc = "ris_enter"
    /\ pc' = "ris_branch"
    /\ UNCHANGED <<fixedVars, now, callsLeft, req, statusAtCall, rs, ris, conns, trace, loopVars,
                   result>>

\* channel.send(b"\n")
Screen_Enter ==
    /\ pc = "ris_enter"
    /\ \/ /\ trace' = Append(trace, Ev("send", ris.client, Newline, None, FALSE))
          /\ pc' = "ris_branch"
          /\ UNCHANGED ris
       \/ /\ Throw("send failed")
          /\ UNCHANGED trace
    /\ UNCHANGED <<fixedVars, now, callsLeft, req, statusAtCall, rs, conns, loopVars, result>>

\* detach mode falls into the polling loop
Screen_BranchDetachMutant ==
    /\ pc = "ris_branch"
    /\ ris.detach
    /\ ris' = [ris EXCEPT !.buffer = <<>>, !.start_time = now]
    /\ reachedPoll' = TRUE
    /\ pc' = "poll"
    /\ UNCHANGED <<fixedVars, now, callsLeft, req, statusAtCall, rs, conns, trace, stream,
                   delivered, didRecv, mirrored, warnings, result>>

\* buffer = ""; start_time = time.time(); if detach:
Screen_BranchDetach ==
    /\ pc = "ris_branch"
    /\ ris.detach
    /\ ris' = [ris EXCEPT !.buffer = <<>>, !.start_time = now]
    /\ pc' = "ris_grace"
    /\ UNCHANGED <<fixedVars, now, callsLeft, req, statusAtCall, rs, conns, trace, loopVars,
                   result>>

\* buffer = ""; start_time = time.time(); else: while True:
Screen_BranchPoll ==
    /\ pc = "ris_branch"
    /\ ~ris.detach
    /\ ris' = [ris EXCEPT !.buffer = <<>>, !.start_time = now]
    /\ reachedPoll' = TRUE
    /\ pc' = "poll"
    /\ UNCHANGED <<fixedVars, now, callsLeft, req, statusAtCall, rs, conns, trace, stream,
                   delivered, didRecv, mirrored, warnings, result>>

\* time.sleep(1)
Screen_Grace ==
    /\ pc = "ris_grace"
    /\ now' = now + GraceTicks
    /\ trace' = Append(trace, Ev("sleep", 0, <<>>, Some(GraceTicks), FALSE))
    /\ pc' = "ris_detach"
    /\ UNCHANGED <<fixedVars, callsLeft, req, statusAtCall, rs, ris, conns, loopVars, result>>

\* channel.send(b"\x01d")
Screen_Detach ==
    /\ pc = "ris_detach"
    /\ \/ /\ trace' = Append(trace, Ev("send", ris.client, DetachKeys, None, FALSE))
          /\ ris' = [ris EXCEPT !.exit = "detach"]
          /\ pc' = "ris_close"
       \/ /\ Throw("send failed")
          /\ UNCHANGED trace
    /\ UNCHANGED <<fixedVars, now, callsLeft, req, statusAtCall, rs, conns, loopVars, result>>

\* the scan runs before the chunk is written out, and a match leaves without writing it
Poll_RecvMutant ==
    /\ pc = "poll"
    /\ stream # <<>>
    /\ didRecv' = TRUE
    /\ \E k \in 1..(IF Len(stream) < RecvSize THEN Len(stream) ELSE RecvSize) :
        LET chunk == Take(stream, k)
            buffer == ris.buffer \o Decode(chunk) IN
        \/ /\ Throw("recv failed")
           /\ UNCHANGED <<stream, delivered, mirrored>>
        \/ /\ stream' = Drop(stream, k)
           /\ delivered' = delivered \o chunk
           /\ \/ /\ ~WellFormed(chunk)
                 /\ Throw("UnicodeDecodeError")
                 /\ UNCHANGED mirrored
              \/ /\ WellFormed(chunk)
                 /\ ris' = [ris EXCEPT !.buffer = buffer, !.e = "write failed"]
                 /\ pc' = "ris_except"
                 /\ UNCHANGED mirrored
              \/ /\ WellFormed(chunk)
                 /\ IF Scan(buffer, ris.completion_marker)
                    THEN /\ ris' = [ris EXCEPT !.buffer = buffer, !.exit = "marker"]
                         /\ pc' = "ris_close"
                         /\ UNCHANGED mirrored
                    ELSE /\ ris' = [ris EXCEPT !.buffer = buffer]
                         /\ pc' = "poll_timeout"
                         /\ mirrored' = mirrored \o Decode(chunk)
    /\ UNCHANGED <<fixedVars, now, callsLeft, req, statusAtCall, rs, conns, trace, reachedPoll,
                   warnings, result>>

\* if channel.recv_ready(): chunk = channel.recv(4096).decode("utf-8"); buffer += chunk;
\* sys.stdout.write(chunk); sys.stdout.flush(); if re.search(...): break
Poll_Recv ==
    /\ pc = "poll"
    /\ stream # <<>>
    /\ didRecv' = TRUE
    /\ \E k \in 1..(IF Len(stream) < RecvSize THEN Len(stream) ELSE RecvSize) :
        LET chunk == Take(stream, k)
            buffer == ris.buffer \o Decode(chunk) IN
        \/ /\ Throw("recv failed")
           /\ UNCHANGED <<stream, delivered, mirrored>>
        \/ /\ stream' = Drop(stream, k)
           /\ delivered' = delivered \o chunk
           /\ \/ /\ ~WellFormed(chunk)
                 /\ Throw("UnicodeDecodeError")
                 /\ UNCHANGED mirrored
              \/ /\ WellFormed(chunk)
                 /\ ris' = [ris EXCEPT !.buffer = buffer, !.e = "write failed"]
                 /\ pc' = "ris_except"
                 /\ UNCHANGED mirrored
              \/ /\ WellFormed(chunk)
                 /\ mirrored' = mirrored \o Decode(chunk)
                 /\ IF Scan(buffer, ris.completion_marker)
                    THEN /\ ris' = [ris EXCEPT !.buffer = buffer, !.exit = "marker"]
                         /\ pc' = "ris_close"
                    ELSE /\ ris' = [ris EXCEPT !.buffer = buffer]
                         /\ pc' = "poll_timeout"
    /\ UNCHANGED <<fixedVars, now, callsLeft, req, statusAtCall, rs, conns, trace, reachedPoll,
                   warnings, result>>

\* channel.recv_ready() is false
Poll_NotReady ==
    /\ pc = "poll"
    /\ pc' = "poll_timeout"
    /\ UNCHANGED <<fixedVars, now, callsLeft, req, statusAtCall, rs, ris, conns, trace, loopVars,
                   result>>

\* the difference is taken the wrong way round
TimedOutMutant(timeout, start_time, t) ==
    Truthy(timeout) /\ start_time - t > timeout.v * TicksPerSecond

\* timeout and time.time() - start_time > timeout
TimedOut(timeout, start_time, t) ==
    Truthy(timeout) /\ t - start_time > timeout.v * TicksPerSecond

\* the timeout leaves the function without closing
Poll_TimeoutMutant ==
    /\ pc = "poll_timeout"
    /\ IF TimedOut(ris.timeout, ris.start_time, now)
       THEN /\ warnings' = warnings + 1
            /\ ris' = [ris EXCEPT !.exit = "timeout"]
            /\ pc' = "ris_return"
       ELSE /\ pc' = "poll_sleep"
            /\ UNCHANGED <<warnings, ris>>
    /\ UNCHANGED <<fixedVars, now, callsLeft, req, statusAtCall, rs, conns, trace, stream,
                   delivered, didRecv, reachedPoll, mirrored, result>>

\* if timeout and ...: logger.warning(...); break
Poll_Timeout ==
    /\ pc = "poll_timeout"
    /\ IF TimedOut(ris.timeout, ris.start_time, now)
       THEN /\ warnings' = warnings + 1
            /\ ris' = [ris EXCEPT !.exit = "timeout"]
            /\ pc' = "ris_close"
       ELSE /\ pc' = "poll_sleep"
            /\ UNCHANGED <<warnings, ris>>
    /\ UNCHANGED <<fixedVars, now, callsLeft, req, statusAtCall, rs, conns, trace, stream,
                   delivered, didRecv, reachedPoll, mirrored, result>>

\* time.sleep(0.1)
Poll_Sleep ==
    /\ pc = "poll_sleep"
    /\ now + PollTicks - ris.start_time <= MaxPollTicks
    /\ now' = now + PollTicks
    /\ pc' = "poll"
    /\ UNCHANGED <<fixedVars, callsLeft, req, statusAtCall, rs, ris, conns, trace, loopVars,
                   result>>

\* client.close()
Screen_Close ==
    /\ pc = "ris_close"
    /\ conns' = Closed(ris.client)
    /\ trace' = Append(trace, Ev("close", ris.client, <<>>, None, FALSE))
    /\ pc' = "ris_return"
    /\ UNCHANGED <<fixedVars, now, callsLeft, req, statusAtCall, rs, ris, loopVars, result>>

\* the buffer is returned as stdout only
Screen_ReturnMutant ==
    /\ pc = "ris_return"
    /\ result' = Returned(ris.buffer, <<>>)
    /\ pc' = "returned"
    /\ UNCHANGED <<fixedVars, now, callsLeft, req, statusAtCall, rs, ris, conns, trace, loopVars>>

\* return SessionContent(stdout=buffer, stderr=buffer)
Screen_Return ==
    /\ pc = "ris_return"
    /\ result' = Returned(ris.buffer, ris.buffer)
    /\ pc' = "returned"
    /\ UNCHANGED <<fixedVars, now, callsLeft, req, statusAtCall, rs, ris, conns, trace, loopVars>>

\* a handler that re-raises without closing
Screen_ExceptMutant ==
    /\ pc = "ris_except"
    /\ RaiseToCaller(ris.e)
    /\ UNCHANGED <<fixedVars, now, callsLeft, req, statusAtCall, rs, ris, conns, trace, loopVars>>

\* except Exception as e: client and client.close(); raise e
Screen_Except ==
    /\ pc = "ris_except"
    /\ IF ris.client # 0
       THEN /\ conns' = Closed(ris.client)
            /\ trace' = Append(trace, Ev("close", ris.client, <<>>, None, FALSE))
       ELSE UNCHANGED <<conns, trace>>
    /\ RaiseToCaller(ris.e)
    /\ UNCHANGED <<fixedVars, now, callsLeft, req, statusAtCall, rs, ris, loopVars>>

\* ------------------------------------------------- the scan, on its own
\* the pieces the scanned buffers are made of: line-break characters, other text,
\* the completion marker of "ls" and the marker of another command
ScanMarker == CompletionMarker(CommandHash(CmdLs))
ScanPieces == {<<"\n">>, <<"\r">>, <<"x">>, ScanMarker, CompletionMarker(CommandHash(CmdAccent))}

RECURSIVE Flatten(_)
Flatten(ps) == IF ps = <<>> THEN <<>> ELSE Head(ps) \o Flatten(Tail(ps))

ScanBuffers == {Flatten(ps) : ps \in UNION {[1..n -> ScanPieces] : n \in 0..MaxScanPieces}}

InitScan ==
    /\ InitSession
    /\ dirStatus = "running"
    /\ callsLeft = 0
    /\ scanIn \in ScanBuffers
    /\ scanOut = "none"

\* re.search(r"\r?\n" + completion_marker + r"\r?\n", buffer) is truthy or None
ApplyScan ==
    /\ scanOut = "none"
    /\ scanOut' = IF Scan(scanIn, ScanMarker) THEN "match" ELSE "no match"
    /\ UNCHANGED <<envVars, sessions, scanIn, now, callsLeft, pc, req, statusAtCall, rs, ris,
                   conns, trace, loopVars, result>>

SpecScan == InitScan /\ [][ApplyScan]_vars

\* --------------------------------------------------------- specifications
\* a Session used through run(), possibly several times while the instance changes status
Next ==
    \/ StatusChange \/ CallRun \/ Run \/ Reset
    \/ RunSingle_Connect \/ RunSingle_Exec \/ RunSingle_Read
    \/ Screen_Probe \/ Screen_CheckProbe \/ Screen_Connect \/ Screen_Shell \/ Screen_Start
    \/ Screen_Settle \/ Screen_Inject \/ Screen_Enter \/ Screen_BranchDetach
    \/ Screen_Grace \/ Screen_Detach \/ Screen_Close \/ Screen_Return \/ Screen_Except

Spec == Init /\ [][Next]_vars

\* one call, of run, run_single or run_in_screen
NextDriver ==
    \/ CallRun \/ Run \/ CallRunSingle \/ CallRunInScreen \/ Reset
    \/ RunSingle_Connect \/ RunSingle_Exec \/ RunSingle_Read
    \/ Screen_Probe \/ Screen_CheckProbe \/ Screen_Connect \/ Screen_Shell \/ Screen_Start
    \/ Screen_Settle \/ Screen_Inject \/ Screen_Enter \/ Screen_BranchDetach
    \/ Screen_BranchPoll \/ Screen_Grace \/ Screen_Detach
    \/ Poll_Recv \/ Poll_NotReady \/ Poll_Timeout \/ Poll_Sleep
    \/ Screen_Close \/ Screen_Return \/ Screen_Except

SpecDriver == InitDriver /\ [][NextDriver]_vars

\* the call is single-threaded and blocking: whenever it has a next statement, it runs it
SpecDriverFair == SpecDriver /\ WF_vars(NextDriver)

\* ------------------------------------------------------------ properties
ConnsBy(by) == {c \in DOMAIN conns : conns[c].by = by}
Live == {c \in DOMAIN conns : conns[c].open}
Events(ops) == {i \in DOMAIN trace : trace[i].op \in ops}
Over == pc = "returned"
NotRunningError == "ValueError: not running"
PreconditionError == "RuntimeError: screen is not installed"

\* C1: a connection opened by run_in_screen for the interactive channel is never closed
\* twice, and when the call has returned or raised it has been closed exactly once,
\* whichever way the call ended.
C1_ScreenConnClosedOnce ==
    \A c \in ConnsBy("run_in_screen") :
        /\ conns[c].closes <= 1
        /\ Over => ~conns[c].open /\ conns[c].closes = 1

\* an error in the polling loop, after text was received, ended the call
C1_Witness ==
    /\ Over
    /\ result.kind = "raise"
    /\ reachedPoll
    /\ ris.buffer # <<>>
    /\ ConnsBy("run_in_screen") # {}

\* C2: at most one connection opened by the Session is live at any time.
C2_AtMostOneLive == Cardinality(Live) <= 1

\* C3: when a call is over, every connection run_single opened in it has been closed
\* exactly once and no connection of the call is left open.
C3_SingleConnReleased ==
    Over => /\ \A c \in ConnsBy("run_single") : conns[c].closes = 1
            /\ Live = {}

\* C4: run() on an instance that is not running raises the not-running error and the call
\* has made no transport operation: no connect, no probe, no channel operation.
C4_NotRunningBeforeTransport ==
    (req.entry = "run" /\ pc # "run" /\ instance.state # "running") =>
        /\ Over
        /\ result = Raised(NotRunningError)
        /\ trace = <<>>
        /\ conns = <<>>
        /\ ~rs.active
        /\ ~ris.active

\* a detached run was asked of a pending instance
C4_Witness ==
    /\ Over
    /\ req.entry = "run"
    /\ req.detach
    /\ instance.state = "pending"
    /\ result.kind = "raise"

\* C5: a second or later run() on the Session, made while the directory reports a status
\* other than running, raises the not-running error.
C5_RunSeesCurrentStatus ==
    (req.entry = "run" /\ Over /\ callsLeft <= MaxCalls - 2 /\ statusAtCall # "running") =>
        result = Raised(NotRunningError)

\* the probe returned and its stdout does not name the tool
ProbeFoundAbsent ==
    /\ ris.active
    /\ rs.ret = "probe"
    /\ rs.returned
    /\ ~Contains(Decode(rs.reply.out), ScreenWord)

\* C6: when the probe finds the tool absent, run_in_screen raises the precondition error
\* and no interactive shell is invoked and nothing is sent.
C6_AbsentToolNoChannel ==
    ProbeFoundAbsent =>
        /\ Events({"invoke_shell", "resize_pty", "send"}) = {}
        /\ ~ris.channel
        /\ ConnsBy("run_in_screen") = {}
        /\ pc \in {"ris_check", "returned"}
        /\ Over => result = Raised(PreconditionError)

C6_Witness ==
    /\ Over
    /\ ProbeFoundAbsent
    /\ result.kind = "raise"

\* C7: a polling run left through the timeout check returns, as stdout and stderr, the
\* text received so far, raises nothing, and its connection is closed exactly once; the
\* loop is left that way only when the timeout has elapsed and the token has not appeared,
\* and it does not go on to sleep once its check has seen the timeout elapsed.
C7_TimeoutReturnsPartial ==
    /\ pc = "poll_sleep" => ~TimedOut(ris.timeout, ris.start_time, now)
    /\ ris.exit = "timeout" =>
        /\ ~ris.detach
        /\ TimedOut(ris.timeout, ris.start_time, now)
        /\ ~Scan(ris.buffer, ris.completion_marker)
        /\ Over =>
            /\ result = Returned(Decode(delivered), Decode(delivered))
            /\ conns[ris.client].closes = 1
            /\ ~conns[ris.client].open

\* the timeout ended a run that had received some text
C7_Witness ==
    /\ Over
    /\ ris.exit = "timeout"
    /\ result.kind = "return"
    /\ result.stdout # <<>>

\* C8: a detach run never enters the polling loop and never reads from the channel; when
\* it returns, its last operations are the grace sleep, the detach keys, the close, the
\* grace delay is all the time it spent after the command was sent, and the output it
\* returns is empty.
C8_DetachDoesNotPoll ==
    (ris.active /\ ris.detach) =>
        /\ ~reachedPoll
        /\ ~didRecv
        /\ (Over /\ result.kind = "return") =>
            /\ Len(trace) >= 3
            /\ SubSeq(trace, Len(trace) - 2, Len(trace)) =
                 <<Ev("sleep", 0, <<>>, Some(GraceTicks), FALSE),
                   Ev("send", ris.client, DetachKeys, None, FALSE),
                   Ev("close", ris.client, <<>>, None, FALSE)>>
            /\ now - ris.start_time = GraceTicks
            /\ result = Returned(<<>>, <<>>)

\* a detach run returned while the remote side still had output to print
C8_Witness ==
    /\ Over
    /\ ris.detach
    /\ result.kind = "return"
    /\ stream # <<>>

\* what run() hands to the path it chose, but for the timeout of the multiplexer path
DispatchedAs(screenTimeout) ==
    (req.entry = "run" /\ pc # "run" /\ instance.state = "running") =>
        IF req.detach
        THEN /\ ris.active
             /\ ris.command = req.command
             /\ ris.detach
             /\ ris.terminate = req.terminate
             /\ ris.timeout = screenTimeout
        ELSE /\ ~ris.active
             /\ rs.active
             /\ rs.ret = "caller"
             /\ Events({"invoke_shell", "resize_pty", "send", "sleep"}) = {}
             /\ Cardinality(Events({"connect", "connect_failed"})) <= 1
             /\ \A i \in Events({"exec"}) :
                    trace[i] = Ev("exec", 1, req.command, req.timeout, req.get_pty)

\* C9 as stated: 600 is substituted only when the caller gave no timeout.
C9_DefaultOnlyForNone ==
    DispatchedAs(IF req.timeout = None THEN Some(600) ELSE req.timeout)

\* C9 amended: 600 is substituted when the caller's timeout is None or 0.
C9_DefaultForNoneOrZero ==
    DispatchedAs(IF req.timeout = None \/ req.timeout = Some(0) THEN Some(600)
                 ELSE req.timeout)

\* a detached run with timeout 0 reached the multiplexer path
C9_Witness ==
    /\ req.entry = "run"
    /\ req.detach
    /\ req.timeout = Some(0)
    /\ ris.active
    /\ pc = "ris_probe"

\* C10: when a call ends with the error of a failed connect, it leaves no connection open.
C10_ConnectFailureLeavesNothingOpen ==
    (Over /\ result = Raised("connect failed")) => Live = {}

\* the token stands at position p of the buffer
TokenAt(buf, p, token) == MatchAt(buf, p, token)
\* a line break, LF or CRLF, ends just before position p
BreakBefore(buf, p) ==
    \/ p >= 2 /\ buf[p - 1] = "\n"
    \/ p >= 3 /\ buf[p - 2] = "\r" /\ buf[p - 1] = "\n"
\* a line break, LF or CRLF, starts at position q
BreakAfter(buf, q) ==
    \/ q <= Len(buf) /\ buf[q] = "\n"
    \/ q + 1 <= Len(buf) /\ buf[q] = "\r" /\ buf[q + 1] = "\n"
OnOwnLine(buf, token) ==
    \E p \in 1..Len(buf) :
        TokenAt(buf, p, token) /\ BreakBefore(buf, p) /\ BreakAfter(buf, p + Len(token))

\* C11: the scan answers true exactly when the buffer holds the token immediately after a
\* line break and immediately before a line break, each LF or CRLF.
C11_ScanIffOwnLine ==
    scanOut # "none" => (scanOut = "match" <=> OnOwnLine(scanIn, ScanMarker))

\* the token ends the buffer after a CRLF: a substring without a line break behind it
C11_Witness ==
    /\ scanOut = "no match"
    /\ scanIn = <<"\r", "\n">> \o ScanMarker

IsSend(e) == e.op = "send"
Sends == SelectSeq(trace, IsSend)
ScreenQuit == <<"s", "c", "r", "e", "e", "n", " ", "-", "X", " ", "q", "u", "i", "t">>
\* <command>; echo '<token>', as bytes
InjectedLine(command) ==
    Encode(command) \o <<";", " ", "e", "c", "h", "o", " ", "'">>
        \o MarkerPrefix \o SubSeq(Md5Hex(Encode(command)), 1, 12) \o <<"'">>

\* C12: the second message of a multiplexer execution is <command>; echo '<token>',
\* followed by ; screen -X quit exactly when terminate is set, and no other message
\* carries the quit instruction.
C12_QuitInInjectedLine ==
    ris.active =>
        /\ Len(Sends) >= 2 =>
             Sends[2].data = InjectedLine(ris.command)
                 \o (IF ris.terminate THEN <<";", " ">> \o ScreenQuit ELSE <<>>)
        /\ \A i \in 1..Len(Sends) :
             Contains(Sends[i].data, ScreenQuit) <=> (i = 2 /\ ris.terminate)

\* a run without terminate has sent all its messages and ended
C12_Witness ==
    /\ Over
    /\ ris.active
    /\ ~ris.terminate
    /\ result.kind = "return"
    /\ Len(Sends) >= 3

\* C13: two multiplexer executions of the same command on the Session, which start their
\* sessions at different times, use different session names and the same completion token,
\* and the token is made of the command's digest alone.
C13_NameByTimeTokenByCommand ==
    \A i, j \in DOMAIN sessions :
        /\ sessions[i].completion_marker =
             MarkerPrefix \o SubSeq(Md5Hex(Encode(sessions[i].command)), 1, 12)
        /\ (i < j /\ sessions[i].command = sessions[j].command) =>
             /\ sessions[i].screen_name # sessions[j].screen_name
             /\ sessions[i].completion_marker = sessions[j].completion_marker

\* the same command was run in a screen session twice
C13_Witness ==
    /\ Len(sessions) >= 2
    /\ sessions[1].command = sessions[2].command

InLoop == pc \in {"poll", "poll_timeout", "poll_sleep"}

\* C14 as stated: with any timeout other than None, the loop does not go on once the
\* elapsed time exceeds the timeout.
C14_AnyTimeoutEndsLoop ==
    (pc = "poll_sleep" /\ ris.timeout.some) =>
        now - ris.start_time <= ris.timeout.v * TicksPerSecond

\* C14 amended: with a timeout that is neither None nor 0, a run that has entered the
\* polling loop eventually leaves it, whatever the remote side prints.
C14_TruthyTimeoutEndsLoop ==
    (reachedPoll /\ Truthy(ris.timeout)) ~> ~InLoop

\* the timeout ended a loop that never received anything
C14_Witness ==
    /\ Over
    /\ ris.exit = "timeout"
    /\ delivered = <<>>
    /\ ~didRecv

\* the operations of a complete multiplexer execution, in order
FullTrace ==
    <<Ev("connect", 1, <<>>, None, FALSE),
      Ev("exec", 1, WhichScreen, None, FALSE),
      Ev("connect", 2, <<>>, None, FALSE),
      Ev("invoke_shell", 2, <<>>, None, FALSE),
      Ev("resize_pty", 2, <<>>, None, FALSE),
      Ev("send", 2, ScreenStartPrefix \o ris.screen_name \o <<"\n">>, None, FALSE),
      Ev("sleep", 0, <<>>, Some(SettleTicks), FALSE),
      Ev("send", 2, InjectedLine(ris.command)
                      \o (IF ris.terminate THEN <<";", " ">> \o ScreenQuit ELSE <<>>),
         None, FALSE),
      Ev("send", 2, <<"\n">>, None, FALSE)>>
    \o (IF ris.detach
        THEN <<Ev("sleep", 0, <<>>, Some(GraceTicks), FALSE),
               Ev("send", 2, <<"^A", "d">>, None, FALSE)>>
        ELSE <<>>)
    \o <<Ev("close", 2, <<>>, None, FALSE)>>

ClosedInTrace == \E i \in DOMAIN trace : trace[i].op = "close"

\* C15: the operations of a multiplexer execution follow the order probe, connect, shell,
\* session start, settle sleep, injection, newline, then grace sleep and detach keys
\* exactly in detach mode, then close; an execution cut short by an error has done a
\* prefix of them, then at most the close.  The channel is read only after the newline
\* was sent and never in detach mode, and once the connection is closed the call only
\* returns or raises.
C15_StepsInOrder ==
    ris.active =>
        /\ Len(trace) <= Len(FullTrace)
        /\ \A i \in DOMAIN trace :
            \/ trace[i] = FullTrace[i]
            \/ i = Len(trace) /\ trace[i] = Ev("close", 2, <<>>, None, FALSE)
            \/ i = Len(trace) /\ trace[i] = Ev("connect_failed", 0, <<>>, None, FALSE)
                              /\ FullTrace[i].op = "connect"
        /\ result.kind = "return" => trace = FullTrace
        /\ (reachedPoll \/ didRecv) => (~ris.detach /\ Len(trace) >= 9)
        /\ ClosedInTrace => pc \in {"ris_return", "returned"}

\* a polling run has read from the channel and returned
C15_Witness ==
    /\ Over
    /\ ris.active
    /\ ~ris.detach
    /\ didRecv
    /\ result.kind = "return"

\* C16: a step of the multiplexer flow that fails hands control to the handler and
\* nothing else happens in that step; the handler closes the connection the flow opened
\* (once, it being still open), then raises the same error to the caller, and performs no
\* other operation: no connect, no send, no read, no normal return.
C16_FailureClosesThenReraises ==
    [][/\ (ris.e = "none" /\ ris'.e # "none") =>
            /\ pc' = "ris_except"
            /\ UNCHANGED <<conns, result>>
       /\ pc = "ris_except" =>
            /\ pc' = "returned"
            /\ result' = Raised(ris.e)
            /\ ris.e # "none"
            /\ IF ris.client # 0
               THEN /\ conns[ris.client].open
                    /\ conns' = Closed(ris.client)
                    /\ trace' = Append(trace, Ev("close", ris.client, <<>>, None, FALSE))
               ELSE UNCHANGED <<conns, trace>>
            /\ UNCHANGED <<ris, delivered, didRecv, mirrored>>]_vars

\* a read of the polling loop failed after output had been received, and the error
\* reached the caller
C16_Witness ==
    /\ Over
    /\ ris.e = "recv failed"
    /\ ris.client # 0
    /\ delivered # <<>>
    /\ result = Raised("recv failed")

\* C17: while no step has failed the buffer is the text of all the bytes read from the
\* channel so far, in order; outside the loop nothing has been read that is not in it, and
\* a normal return of the multiplexer path carries that buffer as stdout and as stderr.
C17_ReturnsWhatWasRead ==
    (ris.active /\ ris.e = "none") =>
        /\ ris.buffer = Decode(delivered)
        /\ (Over /\ result.kind = "return") =>
              /\ result.stdout = ris.buffer
              /\ result.stderr = ris.buffer

\* a polling run returned a buffer that is not empty
C17_Witness ==
    /\ Over
    /\ ris.active
    /\ result.kind = "return"
    /\ result.stdout # <<>>
    /\ result.stdout = Decode(delivered)
    /\ ris.exit = "marker"

\* C18: while no step has failed, the text written to the caller's standard output is
\* the accumulated buffer: at the start of every iteration of the polling loop, inside
\* it after the scan, and after the loop on either exit.  After a failure what was
\* written is a prefix of the buffer.  In detach mode nothing is written.
C18_MirrorFollowsBuffer ==
    ris.active =>
        /\ ris.e = "none" => mirrored = ris.buffer
        /\ Len(mirrored) <= Len(ris.buffer)
        /\ mirrored = Take(ris.buffer, Len(mirrored))
        /\ ris.detach => mirrored = <<>>

\* the loop was left on the timeout with output written out
C18_Witness ==
    /\ Over
    /\ ris.exit = "timeout"
    /\ result.kind = "return"
    /\ mirrored # <<>>
    /\ mirrored = ris.buffer

\* everything the remote side prints during the execution: what was read, then what is
\* still to be read
WholeOutput == delivered \o stream

\* C19: detection does not depend on the split into chunks: when the whole output is
\* valid UTF-8 with the token on its own line, no split of it makes a read step fail on
\* decoding, and as soon as the text read so far has the token on its own line the
\* loop has been left with success, without a timeout warning.
C19_DetectionIgnoresChunking ==
    (/\ ris.active
     /\ reachedPoll
     /\ WellFormed(WholeOutput)
     /\ Scan(Decode(WholeOutput), ris.completion_marker)) =>
        /\ ris.e # "UnicodeDecodeError"
        /\ (ris.e = "none" /\ Scan(Decode(delivered), ris.completion_marker)) =>
              /\ ris.exit = "marker"
              /\ warnings = 0

\* C20: in a call of run() the polling loop is never entered and the channel is never
\* read: a multiplexer execution started by run() is in detach mode, leaves by the detach
\* branch without the timeout being tested (no timeout exit, no warning), and returns
\* empty stdout and empty stderr whatever the remote side prints.
C20_RunNeverPolls ==
    req.entry = "run" =>
        /\ ~InLoop
        /\ ~reachedPoll
        /\ ~didRecv
        /\ ris.exit \notin {"marker", "timeout"}
        /\ warnings = 0
        /\ ris.active => ris.detach
        /\ (ris.active /\ Over /\ result.kind = "return") =>
              /\ result = Returned(<<>>, <<>>)
              /\ trace[Len(trace) - 1] = Ev("send", ris.client, DetachKeys, None, FALSE)

\* run() with a timeout went through the multiplexer path and returned while the remote
\* side had output to give
C20_Witness ==
    /\ Over
    /\ req.entry = "run"
    /\ req.timeout.some
    /\ ris.active
    /\ result.kind = "return"
    /\ stream # <<>>

====
